---- MODULE Spec2Model ----
(***************************************************************************)
(* A model of Deco 2 (src/index.js): factories built from decorators, the  *)
(* three per-factory tables (initializer list, defaults table, method      *)
(* table) and the construction pipeline run when a factory is invoked.     *)
(*                                                                         *)
(* JavaScript values are records [k, n, m]: k is the kind of value, n an   *)
(* identity within the kind, m the own properties of a mapping literal.    *)
(* A property table maps names to [val, enum] (value, enumerable flag).    *)
(***************************************************************************)
EXTENDS Integers, Sequences, FiniteSets, TLC

VARIABLES factories, call

vars == <<factories, call>>

\* ------------------------------------------------------------------------
\* Bounds of the model.
MaxFactories == 2
MaxDecorators == 2

\* ------------------------------------------------------------------------
\* Values and property tables.
EmptyTable == [x \in {} |-> 0]

Val(kind, id) == [k |-> kind, n |-> id, m |-> EmptyTable]

Undef == Val("undefined", 0)
Prim(i) == Val("primitive", i)
Fn(i) == Val("function", i)
Method(i) == Val("method", i)
Obj(i) == Val("object", i)
Pipeline(f) == Val("factoryConstructor", f)
MemberDefaults(f) == Val("members.defaults", f)
StaticDefaults(f) == Val("statics.defaults", f)
FactoryFn(f) == Val("factory", f)
ClassWrapper(c) == Val("classWrapper", c)
TypeError == Val("TypeError", 0)
Mapping(t) == [k |-> "mapping", n |-> 0, m |-> t]

Prop(v, e) == [val |-> v, enum |-> e]

EnumKeys(t) == {x \in DOMAIN t : t[x].enum}

\* The own properties a value exposes to Assign: a mapping exposes its
\* entries, a function or undefined exposes no enumerable property.
OwnProps(v) == IF v.k = "mapping" THEN v.m ELSE EmptyTable

\* copy-properties/assign with one source: every own enumerable property of
\* the source is defined on the target, replacing an entry of the same name
\* (the library is required at src/index.js:5; like Object.assign it takes
\* own enumerable properties only, and it defines them with the source's
\* descriptor, so the copied entry is enumerable on the target).
Assign1(target, source) ==
  [x \in DOMAIN target \cup EnumKeys(source) |->
     IF x \in EnumKeys(source) THEN Prop(source[x].val, TRUE) ELSE target[x]]

RECURSIVE Assign(_, _)
\* Assign(target, ...sources): sources applied left to right.
Assign(target, sources) ==
  IF sources = << >> THEN target
  ELSE Assign(Assign1(target, Head(sources)), Tail(sources))

\* copy-properties/copy: Assign into a new empty object.
Copy(sources) == Assign(EmptyTable, sources)

Reverse(s) == [i \in 1..Len(s) |-> s[Len(s) + 1 - i]]


\* ------------------------------------------------------------------------
\* Utility functions of src/index.js.

\* A decorator is [kind, self, own, chain]: own is the table of its own
\* properties and chain the prototype chain of decorator.prototype, most
\* specific layer first (empty when the decorator has no prototype).
isFunction(d) == d.kind \in {"function", "arrow", "class"}

isClass(d) == d.kind = "class"

\* chain(prototype): the layers of the prototype chain.
chain(d) == d.chain

\* A flattening that copies the chain without reversing it.
flattenUnreversed(d) == Copy(chain(d))

\* flatten(prototype) == Copy(...chain(prototype).reverse())
flatten(d) == Copy(Reverse(chain(d)))

\* decorator.prototype.constructor: an ordinary property lookup, which
\* walks the chain and does not care about enumerability.
RECURSIVE Lookup(_, _)
Lookup(layers, name) ==
  IF layers = << >> THEN Undef
  ELSE IF name \in DOMAIN Head(layers) THEN Head(layers)[name].val
  ELSE Lookup(Tail(layers), name)

\* ------------------------------------------------------------------------
\* The built-in prototypes at the end of every prototype chain.  Their
\* properties are not enumerable.
ObjectPrototype == "constructor" :> Prop(Val("Object", 0), FALSE)

FunctionPrototype == "constructor" :> Prop(Val("Function", 0), FALSE)

\* Deco.prototype == Object.create(Function.prototype): no own property.
DecoPrototype == EmptyTable

\* ------------------------------------------------------------------------
\* The decorators the model composes.
ObjectDecorator(own) ==
  [kind |-> "object", self |-> Undef, own |-> own, chain |-> << >>]

FunctionDecorator(fn, layers) ==
  [kind |-> "function", self |-> fn, own |-> EmptyTable, chain |-> layers]

ArrowDecorator(fn) ==
  [kind |-> "arrow", self |-> fn, own |-> EmptyTable, chain |-> << >>]

ClassDecorator(c, layers) ==
  [kind |-> "class", self |-> Val("class", c), own |-> EmptyTable,
   chain |-> layers]

ArrayDecorator(elements) ==
  [kind |-> "array", self |-> Undef,
   own |-> [x \in DOMAIN elements |-> Prop(elements[x], TRUE)]
             @@ ("length" :> Prop(Prim(0), FALSE)),
   chain |-> << >>]

DefaultsA == ("a" :> Prop(Prim(1), TRUE))

DefaultsB == ("a" :> Prop(Prim(2), TRUE)) @@ ("b" :> Prop(Prim(1), TRUE))

\* 1: { constructor: function () { this.f1 = 1 }, defaults: { a: 1 },
\*      m1 () {} }
\* 2: { defaults: { a: 2, b: 1 }, m1 () {}, m2 () {} }
\* 3: function Legacy () { this.f3 = 3; return this } with
\*    Legacy.prototype.m2 and a parent prototype defining m1 and m2
\* 4: function (options) { return { wrapper: options } }
\* 5: (options, fail) => { if (fail) throw new Error() }
\* 6: class K { m1 () {} }
\* 7: [ 'barron von beluga' ]
Catalog ==
  << ObjectDecorator(("constructor" :> Prop(Fn(1), TRUE))
                       @@ ("defaults" :> Prop(Mapping(DefaultsA), TRUE))
                       @@ ("m1" :> Prop(Method(1), TRUE))),
     ObjectDecorator(("defaults" :> Prop(Mapping(DefaultsB), TRUE))
                       @@ ("m1" :> Prop(Method(2), TRUE))
                       @@ ("m2" :> Prop(Method(3), TRUE))),
     FunctionDecorator(Fn(3),
       << ("constructor" :> Prop(Fn(3), FALSE))
            @@ ("m2" :> Prop(Method(4), TRUE)),
          ("constructor" :> Prop(Fn(6), FALSE))
            @@ ("m1" :> Prop(Method(5), TRUE))
            @@ ("m2" :> Prop(Method(6), TRUE)),
          ObjectPrototype >>),
     FunctionDecorator(Fn(4),
       << "constructor" :> Prop(Fn(4), FALSE), ObjectPrototype >>),
     ArrowDecorator(Fn(5)),
     ClassDecorator(1,
       << ("constructor" :> Prop(Val("class", 1), FALSE))
            @@ ("m1" :> Prop(Method(7), FALSE)),
          ObjectPrototype >>),
     ArrayDecorator("0" :> Prim(7)) >>

\* What a catalogue function does when it is applied to the parameters.
Behaviour(n, params) ==
  CASE n = 1 -> "set"
    [] n = 3 -> "self"
    [] n = 4 -> "wrap"
    [] n = 5 -> IF Len(params) >= 2 THEN "throw" ELSE "nothing"
    [] OTHER -> "set"

\* The partial mappings passed to the defaults operations.
Updates ==
  { ("a" :> Prop(Prim(3), TRUE)),
    ("b" :> Prop(Prim(2), TRUE)) @@ ("c" :> Prop(Prim(1), TRUE)) }

\* A reference to a decorator: an entry of the catalogue, a factory built
\* earlier, or the object { defaults: m } that statics.defaults composes.
CatalogRef(i) == [t |-> "catalog", i |-> i, m |-> EmptyTable]

FactoryRef(f) == [t |-> "factory", i |-> f, m |-> EmptyTable]

DefaultsRef(m) == [t |-> "defaults", i |-> 0, m |-> m]

\* ------------------------------------------------------------------------
\* A family of decorator shapes for the composition functions alone: every
\* kind of decorator, with and without an own constructor entry, with and
\* without an own defaults entry, in MaxVariant variants.  Variant v of a
\* function or class has a prototype chain of v layers below
\* Object.prototype.
MaxVariant == 3

ShapeKinds == << "object", "function", "arrow", "class" >>

NShapes == Len(ShapeKinds) * 4 * MaxVariant

ShapeKind(i) == ShapeKinds[((i - 1) % 4) + 1]

ShapeHasConstructor(i) == ((i - 1) \div 4) % 2 = 1

ShapeHasDefaults(i) == ((i - 1) \div 8) % 2 = 1

ShapeVariant(i) == ((i - 1) \div 16) + 1

\* Layer j (1: the most specific) of the chain of variant v.  Variants with
\* an even v have a template without an own constructor entry, as after
\* F.prototype = Object.create(Parent.prototype); m1 is on every layer and
\* is not enumerable on some; m2 is on the layers above the template.
ShapeLayer(self, v, j) ==
  (IF j > 1 \/ v % 2 = 1
   THEN "constructor" :> Prop(IF j = 1 THEN self ELSE Fn(40 + 10 * v + j),
                              FALSE)
   ELSE EmptyTable)
  @@ ("m1" :> Prop(Method(10 * v + j), (j + v) % 3 # 1))
  @@ (IF j > 1 THEN "m2" :> Prop(Method(10 * v + j + 5), TRUE)
      ELSE EmptyTable)

\* The methods of a class body are not enumerable.
ClassLayer(layer) == [x \in DOMAIN layer |-> Prop(layer[x].val, FALSE)]

ShapeChain(self, v) ==
  [j \in 1..v |-> ShapeLayer(self, v, j)] \o << ObjectPrototype >>

ShapeDefaults(v) ==
  ("a" :> Prop(Prim(v), TRUE))
  @@ (IF v % 2 = 0 THEN "b" :> Prop(Prim(v), TRUE) ELSE EmptyTable)

\* The own constructor and defaults entries of shape i: d.constructor = f,
\* d.defaults = { ... }.
ShapeOwn(i) ==
  (IF ShapeHasConstructor(i)
   THEN "constructor" :> Prop(Fn(80 + ShapeVariant(i)), TRUE)
   ELSE EmptyTable)
  @@ (IF ShapeHasDefaults(i)
      THEN "defaults" :> Prop(Mapping(ShapeDefaults(ShapeVariant(i))), TRUE)
      ELSE EmptyTable)

Shape(i) ==
  LET v == ShapeVariant(i)
      kind == ShapeKind(i)
  IN CASE kind = "object" ->
            ObjectDecorator(
              ShapeOwn(i)
              @@ ("m1" :> Prop(Method(60 + v), TRUE))
              @@ (IF v > 1 THEN "m2" :> Prop(Method(70 + v), TRUE)
                  ELSE EmptyTable))
       [] kind = "function" ->
            [FunctionDecorator(Fn(20 + v), ShapeChain(Fn(20 + v), v))
               EXCEPT !.own = ShapeOwn(i)]
       [] kind = "arrow" ->
            [ArrowDecorator(Fn(30 + v)) EXCEPT !.own = ShapeOwn(i)]
       [] OTHER ->
            [ClassDecorator(
               v, << ClassLayer(ShapeLayer(Val("class", v), 1, 1)) >>
                    \o Tail(ShapeChain(Val("class", v), v)))
               EXCEPT !.own = ShapeOwn(i)]

ShapeRef(i) == [t |-> "shape", i |-> i, m |-> EmptyTable]

\* A factory used as a decorator: a function whose own properties are its
\* statics and whose prototype is its method table.
FactoryDecorator(facs, f) ==
  [kind |-> "function", self |-> FactoryFn(f), own |-> facs[f].statics,
   chain |-> << facs[f].prototype, DecoPrototype, FunctionPrototype,
                ObjectPrototype >>]

Resolve(facs, ref) ==
  CASE ref.t = "catalog" -> Catalog[ref.i]
    [] ref.t = "factory" -> FactoryDecorator(facs, ref.i)
    [] ref.t = "shape" -> Shape(ref.i)
    [] OTHER -> ObjectDecorator("defaults" :> Prop(Mapping(ref.m), TRUE))

ResolveAll(facs, refs) == [i \in 1..Len(refs) |-> Resolve(facs, refs[i])]

\* ------------------------------------------------------------------------
\* Factory private static members.

\* A classifier that looks at the kind of the decorator before its own
\* constructor entry.
InitializerKindFirst(d) ==
  IF isFunction(d) /\ ~isClass(d)
  THEN IF chain(d) = << >> THEN d.self
       ELSE Lookup(chain(d), "constructor")
  ELSE IF isClass(d) THEN ClassWrapper(d.self.n)
  ELSE IF "constructor" \in DOMAIN d.own THEN d.own["constructor"].val
  ELSE Undef

\* The body of the map callback of concatenateConstructors.
Initializer(d) ==
  IF "constructor" \in DOMAIN d.own THEN d.own["constructor"].val
  ELSE IF isFunction(d) /\ ~isClass(d)
       THEN IF chain(d) = << >> THEN d.self
            ELSE Lookup(chain(d), "constructor")
  ELSE IF isClass(d) THEN ClassWrapper(d.self.n)
  ELSE Undef

\* A composition that replaces the initializer list instead of pushing.
concatenateConstructorsReplacing(fac, ds) ==
  [fac EXCEPT !.constructors =
     SelectSeq([i \in 1..Len(ds) |-> Initializer(ds[i])],
               LAMBDA a : a.k # "undefined")]

concatenateConstructors(fac, ds) ==
  [fac EXCEPT !.constructors =
     @ \o SelectSeq([i \in 1..Len(ds) |-> Initializer(ds[i])],
                    LAMBDA a : a.k # "undefined")]

\* The body of the map callback of concatenateDefaults.
DefaultsOf(d) ==
  IF "defaults" \in DOMAIN d.own THEN d.own["defaults"].val ELSE Undef

concatenateDefaults(fac, ds) ==
  [fac EXCEPT !.defaults =
     Assign(@, [i \in 1..Len(ds) |-> OwnProps(DefaultsOf(ds[i]))])]

\* The body of the map callback of concatenatePrototypes.
PrototypeOf(d) == IF isFunction(d) THEN flatten(d) ELSE d.own

\* A merge in which the decorator composed first wins.
concatenatePrototypesLeftBiased(fac, ds) ==
  [fac EXCEPT !.prototype =
     Assign(@, Reverse([i \in 1..Len(ds) |-> PrototypeOf(ds[i])]))]

concatenatePrototypes(fac, ds) ==
  [fac EXCEPT !.prototype =
     Assign(@, [i \in 1..Len(ds) |-> PrototypeOf(ds[i])])]

concatenate(fac, ds) ==
  concatenatePrototypes(
    concatenateDefaults(concatenateConstructors(fac, ds), ds), ds)

\* The factory as setPrototype and the secrets store leave it: an empty
\* method table, an empty initializer list and an empty defaults table.
NewFactory ==
  [constructors |-> << >>, defaults |-> EmptyTable,
   prototype |-> EmptyTable, statics |-> EmptyTable, decorators |-> << >>]

\* initialize(factory): the members go on the method table and the statics
\* on the factory, all of them non-enumerable.
initialize(fac, f) ==
  [fac EXCEPT
     !.prototype = @ @@ ("constructor" :> Prop(Pipeline(f), FALSE))
                     @@ ("defaults" :> Prop(MemberDefaults(f), FALSE)),
     !.statics = @ @@ ("defaults" :> Prop(StaticDefaults(f), FALSE))]

\* Deco(...decorators) building factory number f.
Deco(facs, f, refs) ==
  [concatenate(initialize(NewFactory, f), ResolveAll(facs, refs))
     EXCEPT !.decorators = refs]

\* ------------------------------------------------------------------------
\* Applying functions.  A run carries the heap of the objects of one call
\* (an object is [proto, props, frozen]), the trace of the functions applied
\* so far and whether an exception is propagating.  An event records
\* the function, its receiver, its arguments, what it returned, the factory
\* whose pipeline applied it (0: the factory function itself) and the depth.
Pending == Val("pending", 0)

FieldOf(n) ==
  CASE n = 1 -> "f1"
    [] n = 3 -> "f3"
    [] OTHER -> "f6"

Param(params, i) == IF Len(params) >= i THEN params[i] ELSE Undef

Event(fn, o, params, by, depth) ==
  [fn |-> fn, this |-> o, args |-> params, ret |-> Pending, by |-> by,
   depth |-> depth]

Throw(st, idx) ==
  [st |-> [st EXCEPT !.trace[idx].ret = Val("thrown", 0), !.threw = TRUE],
   ret |-> Undef]

\* The function returns v, unless a write it made has thrown.
Return(st, idx, v) ==
  IF st.threw THEN Throw(st, idx)
  ELSE [st |-> [st EXCEPT !.trace[idx].ret = v], ret |-> v]

\* Assign(o, table) for a heap object o, without regard to Object.freeze.
AssignObjUnfrozen(st, o, table) ==
  IF o.k = "object" THEN [st EXCEPT !.heap[o.n].props = Assign1(@, table)]
  ELSE st

\* Assign(o, table) for a heap object o, and the writes this.x = v of the
\* initializers (strict-mode functions).  A frozen object (Object.freeze)
\* takes no new property and no new value: defining a property as it
\* already is succeeds, any other write throws a TypeError.
AssignObj(st, o, table) ==
  IF o.k # "object" THEN st
  ELSE IF ~st.heap[o.n].frozen
         THEN [st EXCEPT !.heap[o.n].props = Assign1(@, table)]
  ELSE IF Assign1(st.heap[o.n].props, table) = st.heap[o.n].props THEN st
  ELSE [st EXCEPT !.threw = TRUE]

Alloc(st, proto, props) ==
  [st EXCEPT !.heap = Append(@, [proto |-> proto, props |-> props,
                                 frozen |-> FALSE])]

\* f.apply(o, parameters): the arguments every initializer of a pipeline is
\* applied to are the parameters of the call, whatever the accumulator o.
ParametersWithDefaults(g, o, params) ==
  IF params = << >> THEN params
  ELSE << Mapping(factories[g].defaults) >> \o Tail(params)

Parameters(g, o, params) == params

RECURSIVE ApplyFn(_, _, _, _, _, _)
RECURSIVE Reduce(_, _, _, _, _, _)

\* fn.apply(o, parameters)
ApplyFn(fn, o, params, st, by, depth) ==
  LET idx == Len(st.trace) + 1
      st1 == [st EXCEPT !.trace = Append(@, Event(fn, o, params, by, depth))]
      new == Len(st.heap) + 1
  IN CASE fn.k = "function" /\ Behaviour(fn.n, params) = "nothing" ->
            Return(st1, idx, Undef)
       [] fn.k = "function" /\ Behaviour(fn.n, params) = "set" ->
            Return(AssignObj(st1, o, FieldOf(fn.n) :> Prop(Prim(fn.n), TRUE)),
                   idx, Undef)
       [] fn.k = "function" /\ Behaviour(fn.n, params) = "self" ->
            Return(AssignObj(st1, o, FieldOf(fn.n) :> Prop(Prim(fn.n), TRUE)),
                   idx, o)
       [] fn.k = "function" /\ Behaviour(fn.n, params) = "wrap" ->
            Return(Alloc(st1, 0, "wrapper" :> Prop(Param(params, 1), TRUE)),
                   idx, Obj(new))
       [] fn.k = "function" /\ Behaviour(fn.n, params) = "throw" -> Throw(st1, idx)
       [] fn.k = "classWrapper" ->
            \* Reflect.construct(decorator, parameters)
            Return(Alloc(st1, 0 - fn.n, EmptyTable), idx, Obj(new))
       [] fn.k = "factoryConstructor" ->
            LET r == Reduce(fn.n, 1, o, params, st1, depth)
            IN IF r.st.threw THEN Throw(r.st, idx)
               ELSE Return(r.st, idx, r.ret)
       [] OTHER -> Throw(st1, idx)

\* The body of the reducer after the initializer has returned next: an
\* undefined or identical result keeps the accumulator o, any other result
\* is assigned the method table of factory g and becomes the accumulator.
AccumulateUnchecked(g, o, next, st) ==
  [o |-> next, st |-> AssignObj(st, next, factories[g].prototype)]

Accumulate(g, o, next, st) ==
  IF next = Undef THEN [o |-> o, st |-> st]
  ELSE IF next = o THEN [o |-> o, st |-> st]
  ELSE [o |-> next, st |-> AssignObj(st, next, factories[g].prototype)]

\* A reducer that catches what an initializer throws and goes on.
ReduceCatching(g, i, o, params, st, depth) ==
  IF i > Len(factories[g].constructors) THEN [st |-> st, ret |-> o]
  ELSE LET r == ApplyFn(factories[g].constructors[i], o,
                        Parameters(g, o, params), st, g, depth + 1)
           a == Accumulate(g, o, r.ret, [r.st EXCEPT !.threw = FALSE])
       IN Reduce(g, i + 1, a.o, params, a.st, depth)

\* factoryConstructor of factory g: constructors.reduce(..., this), from
\* the i-th initializer on with accumulator o.
Reduce(g, i, o, params, st, depth) ==
  IF i > Len(factories[g].constructors) THEN [st |-> st, ret |-> o]
  ELSE LET r == ApplyFn(factories[g].constructors[i], o,
                        Parameters(g, o, params), st, g, depth + 1)
           a == Accumulate(g, o, r.ret, r.st)
       IN IF r.st.threw THEN r
          ELSE Reduce(g, i + 1, a.o, params, a.st, depth)

\* ------------------------------------------------------------------------
\* The factory function.
\* No receiver, an object holding the factory, a plain object, and the
\* factory's own (frozen) method table: Factory.call(Factory.prototype, ...).
Receivers == {"none", "holder", "plain", "prototype"}

ParamChoices == { << Prim(8) >>, << Prim(8), Prim(9) >> }

\* The receiver of a call is object 1 of the heap, when there is one.
ReceiverHeap(f, receiver) ==
  CASE receiver = "holder" ->
         << [proto |-> 0, props |-> "Factory" :> Prop(FactoryFn(f), TRUE),
             frozen |-> FALSE] >>
    [] receiver = "plain" ->
         << [proto |-> 0, props |-> "x" :> Prop(Prim(9), TRUE),
             frozen |-> FALSE] >>
    [] receiver = "prototype" ->
         << [proto |-> 0, props |-> factories[f].prototype,
             frozen |-> TRUE] >>
    [] OTHER -> << >>

\* for (const key of Reflect.ownKeys(this)) if (this[key] === factory) ...
Holds(props, f) == \E key \in DOMAIN props : props[key].val = FactoryFn(f)

NoCall ==
  [op |-> "none", f |-> 0, receiver |-> "none", params |-> << >>,
   decorators |-> << >>, result |-> Undef, threw |-> FALSE,
   created |-> FALSE, trace |-> << >>, heap |-> << >>]

\* factory.call(receiver, ...params)
factory(f, receiver, params) ==
  LET ctor == factories[f].prototype["constructor"].val
      heap0 == ReceiverHeap(f, receiver)
      st0 == [heap |-> heap0, trace |-> << >>, threw |-> FALSE]
      create == receiver = "none" \/ Holds(heap0[1].props, f)
      new == Len(heap0) + 1
      \* create(): Reflect.construct(ctor, parameters, factory)
      rc == ApplyFn(ctor, Obj(new), params,
                    Alloc(st0, f, EmptyTable), 0, 0)
      \* Assign(this, factory.prototype); ctor.apply(this, parameters)
      ra == ApplyFn(ctor, Obj(1), params,
                    AssignObj(st0, Obj(1), factories[f].prototype), 0, 0)
      r == IF create THEN rc ELSE ra
      result == IF r.st.threw THEN Undef
                ELSE IF create /\ r.ret.k # "object" THEN Obj(new)
                ELSE r.ret
  IN [NoCall EXCEPT !.op = "factory", !.f = f, !.receiver = receiver,
        !.params = params, !.result = result, !.threw = r.st.threw,
        !.created = create, !.trace = r.st.trace, !.heap = r.st.heap]

\* ------------------------------------------------------------------------
\* The operations.
DecoratorRefs ==
  {CatalogRef(i) : i \in 1..Len(Catalog)}
    \cup {FactoryRef(f) : f \in 1..Len(factories)}

\* The decorators handed to Factory.decorators(...).
DecoratorsArgs == {CatalogRef(3), CatalogRef(4)}

RefSeqs ==
  UNION {[1..n -> DecoratorRefs] : n \in 0..MaxDecorators}

Init ==
  /\ factories = << >>
  /\ call = NoCall

\* Deco(...decorators)
Build ==
  /\ Len(factories) < MaxFactories
  /\ \E refs \in RefSeqs :
       /\ factories' = Append(factories,
                              Deco(factories, Len(factories) + 1, refs))
       /\ call' = [NoCall EXCEPT !.op = "Deco", !.f = Len(factories) + 1,
                     !.decorators = refs,
                     !.result = FactoryFn(Len(factories) + 1)]

\* Factory.defaults(...updates): statics.defaults with this = factory f.
StaticDefaultsCall ==
  /\ Len(factories) < MaxFactories
  /\ \E f \in 1..Len(factories), u \in Updates :
       LET refs == << FactoryRef(f),
                      DefaultsRef(Copy(<< factories[f].defaults, u >>)) >>
       IN /\ factories' = Append(factories,
                                 Deco(factories, Len(factories) + 1, refs))
          /\ call' = [NoCall EXCEPT !.op = "statics.defaults", !.f = f,
                        !.params = << Mapping(u) >>, !.decorators = refs,
                        !.result = FactoryFn(Len(factories) + 1)]

\* instance.defaults(...updates): the defaults entry of the method table of
\* factory f applied to an update.
MemberDefaultsCall ==
  \E f \in 1..Len(factories), u \in Updates :
    LET entry == factories[f].prototype["defaults"].val
        callable == entry.k = "members.defaults"
    IN /\ call' = [NoCall EXCEPT !.op = "members.defaults", !.f = f,
                     !.params = << Mapping(u) >>,
                     !.threw = ~callable,
                     !.result =
                       IF callable
                       THEN Mapping(Copy(<< factories[entry.n].defaults, u >>))
                       ELSE Undef]
       /\ UNCHANGED factories

\* Factory.decorators(...more): the property is looked up on the factory,
\* whose prototype chain starts at its method table.
DecoratorsCall ==
  \E f \in 1..Len(factories), ref \in DecoratorsArgs :
    LET entry == Lookup(<< factories[f].statics, factories[f].prototype,
                           DecoPrototype, FunctionPrototype,
                           ObjectPrototype >>, "decorators")
    IN /\ entry = Undef
       /\ call' = [NoCall EXCEPT !.op = "decorators", !.f = f,
                     !.decorators = << ref >>, !.threw = TRUE,
                     !.result = TypeError]
       /\ UNCHANGED factories

\* Factory(...params), lib.Factory(...params), Factory.call(o, ...params)
Invoke ==
  \E f \in 1..Len(factories), receiver \in Receivers,
     params \in ParamChoices :
    /\ call' = factory(f, receiver, params)
    /\ factories' = IF receiver = "prototype"
                    THEN [factories EXCEPT
                            ![f].prototype = call'.heap[1].props]
                    ELSE factories

Next ==
  \/ Build
  \/ StaticDefaultsCall
  \/ MemberDefaultsCall
  \/ DecoratorsCall
  \/ Invoke

Spec == Init /\ [][Next]_vars

\* ------------------------------------------------------------------------
\* The composition functions alone: the decorators are drawn from the
\* shapes, then composed into one factory or, for a single function,
\* flattened.
ShapeSeqs ==
  UNION {[1..n -> {ShapeRef(i) : i \in 1..NShapes}] : n \in 1..MaxDecorators}

InitPure ==
  /\ factories = << >>
  /\ \E refs \in ShapeSeqs :
       call = [NoCall EXCEPT !.op = "input", !.decorators = refs]

\* Deco(...decorators)
Compose ==
  /\ call.op = "input"
  /\ factories' = << Deco(factories, 1, call.decorators) >>
  /\ call' = [call EXCEPT !.op = "Deco", !.f = 1, !.result = FactoryFn(1)]

\* flatten(decorator.prototype)
FlattenStep ==
  /\ call.op = "input"
  /\ Len(call.decorators) = 1
  /\ isFunction(Resolve(factories, call.decorators[1]))
  /\ call' = [call EXCEPT
                !.op = "flatten",
                !.result =
                  Mapping(flatten(Resolve(factories, call.decorators[1])))]
  /\ UNCHANGED factories

NextPure ==
  \/ Compose
  \/ FlattenStep

SpecPure == InitPure /\ [][NextPure]_vars

\* ------------------------------------------------------------------------
\* Properties.

\* The events of a trace that factory f's own pipeline applied.
RECURSIVE EventsBy(_, _)
EventsBy(trace, f) ==
  IF trace = << >> THEN << >>
  ELSE IF Head(trace).by = f /\ Head(trace).depth = 1
       THEN << Head(trace) >> \o EventsBy(Tail(trace), f)
       ELSE EventsBy(Tail(trace), f)

\* What a call of factory f ran as its initializers: what its pipeline
\* applied, or the function found in place of the pipeline.
InitializersRun(c) ==
  IF c.trace = << >> THEN << >>
  ELSE IF c.trace[1].fn = Pipeline(c.f)
       THEN [i \in 1..Len(EventsBy(c.trace, c.f)) |->
               EventsBy(c.trace, c.f)[i].fn]
       ELSE << c.trace[1].fn >>

\* C1: in every invocation of a factory that returns, each initializer of
\* the factory's initializer list is invoked exactly once, in registration
\* order.
C1_EveryInitializerOnceInOrder ==
  (call.op = "factory" /\ ~call.threw)
    => InitializersRun(call) = factories[call.f].constructors

\* C2: once an initializer has returned a new mapping, every later
\* initializer of the same call receives that mapping as its options
\* argument.
C2_ReplacedOptionsObserved ==
  call.op = "factory" =>
    LET es == EventsBy(call.trace, call.f)
    IN \A i \in 1..Len(es) : \A j \in 1..Len(es) :
         (/\ j = i + 1
          /\ es[i].ret.k = "object"
          /\ es[i].ret # es[i].this)
           => Param(es[j].args, 1) = es[i].ret

\* C3: composing an array that contains a non-function raises the
\* invalid-decorator-list error at composition time.
C3_BadArrayRaises ==
  (/\ call.op = "Deco"
   /\ \E i \in 1..Len(call.decorators) :
        /\ call.decorators[i].t = "catalog"
        /\ Catalog[call.decorators[i].i].kind = "array")
    => call.threw

\* C4: a decorators(...) call on a factory adds the initializers of the
\* given decorators to the factory's initializer list.
C4_DecoratorsAdditive ==
  [][call'.op = "decorators" =>
       /\ ~call'.threw
       /\ factories'[call'.f].constructors =
            concatenateConstructors(
              factories[call'.f],
              ResolveAll(factories, call'.decorators)).constructors]_vars

\* The three tables of a factory.
Tables(fac) ==
  [constructors |-> fac.constructors, defaults |-> fac.defaults,
   prototype |-> fac.prototype]

C6_DefaultsAccumulate ==
  (call.op \in {"statics.defaults", "members.defaults"} /\ ~call.threw)
    => \A key \in DOMAIN call.params[1].m :
         /\ key \in DOMAIN factories[call.f].defaults
         /\ factories[call.f].defaults[key].val = call.params[1].m[key].val

\* C7: every initializer receives as its second argument the protected
\* object of its invocation.
C7_ProtectedSecondArgument ==
  call.op = "factory" =>
    \A i \in 1..Len(call.trace) :
      call.trace[i].by # 0 => Param(call.trace[i].args, 2).k = "object"

\* C8: a factory composed of another factory holds every entry of that
\* factory's defaults table.
C8_FactoryDecoratorImportsDefaults ==
  \A f \in 1..Len(factories) :
    \A i \in 1..Len(factories[f].decorators) :
      factories[f].decorators[i].t = "factory" =>
        DOMAIN factories[factories[f].decorators[i].i].defaults
          \subseteq DOMAIN factories[f].defaults

\* C9: without a receiver, or with one that holds the factory, a new
\* instance is created and the receiver is left alone; with another
\* receiver no instance is created, the method table is applied to the
\* receiver and the initializer chain runs against it.
C9_DispatchByReceiver ==
  (call.op = "factory" /\ ~call.threw) =>
    IF call.receiver \in {"plain", "prototype"}
    THEN /\ ~call.created
         /\ \A i \in 1..Len(call.heap) : call.heap[i].proto # call.f
         /\ EnumKeys(factories[call.f].prototype)
              \subseteq DOMAIN call.heap[1].props
         /\ call.trace[1].this = Obj(1)
         /\ InitializersRun(call) = factories[call.f].constructors
    ELSE /\ call.created
         /\ \E i \in 1..Len(call.heap) : call.heap[i].proto = call.f
         /\ call.receiver = "holder" =>
              call.heap[1] = ReceiverHeap(call.f, "holder")[1]

\* C10: statics.defaults on factory F with update U builds a factory G
\* whose defaults table is F's merged with U and whose method table is
\* F's, and leaves F as it was.
C10_StaticDefaultsCopyOnWrite ==
  [][call'.op = "statics.defaults" =>
       LET F == call'.f
           G == call'.result.n
       IN /\ factories'[F] = factories[F]
          /\ factories'[G].defaults =
               Copy(<< factories[F].defaults, call'.params[1].m >>)
          /\ \A name \in DOMAIN factories[F].prototype :
               /\ name \in DOMAIN factories'[G].prototype
               /\ factories'[G].prototype[name].enum
                    = factories[F].prototype[name].enum
               /\ factories[F].prototype[name].enum =>
                    factories'[G].prototype[name] = factories[F].prototype[name]
          /\ DOMAIN factories'[G].prototype = DOMAIN factories[F].prototype]_vars

\* C11: a non-mapping argument of a factory call ('ping') is the options
\* argument of every initializer the call applies, as the caller gave it:
\* every function applied in the call is applied to the call's parameters.
C11_NonMappingOptionsUnmodified ==
  call.op = "factory" =>
    \A i \in 1..Len(call.trace) :
      /\ call.trace[i].args = call.params
      /\ Param(call.trace[i].args, 1) = Prim(8)

\* C11 witness: a call with 'ping' of a factory that has a defaults table,
\* in which two initializers were applied, the second one to an instance
\* that the first one replaced.
C11_Witness ==
  /\ call.op = "factory"
  /\ Param(call.params, 1) = Prim(8)
  /\ factories[call.f].defaults # EmptyTable
  /\ \E i \in 1..Len(call.trace) : \E j \in 1..Len(call.trace) :
       /\ i < j
       /\ call.trace[i].fn.k = "function"
       /\ call.trace[j].fn.k = "function"
       /\ call.trace[i].by = call.trace[j].by
       /\ call.trace[i].ret.k = "object"
       /\ call.trace[j].this = call.trace[i].ret
       /\ call.trace[j].this # call.trace[i].this

\* C12: once Deco has returned a factory, no operation adds, removes or
\* replaces an own property of the factory or an entry of its method table;
\* its initializer list and defaults table change, if at all, only in a
\* decorators or defaults call.
C12_FactorySealed ==
  [][\A f \in 1..Len(factories) :
       /\ f <= Len(factories')
       /\ factories'[f].statics = factories[f].statics
       /\ factories'[f].prototype = factories[f].prototype
       /\ (\/ factories'[f].constructors # factories[f].constructors
           \/ factories'[f].defaults # factories[f].defaults)
            => call'.op \in {"decorators", "statics.defaults",
                             "members.defaults"}]_vars

\* C12 witness: a factory that is a decorator of another factory was
\* called with its own method table as the receiver, and an initializer's
\* write to that receiver threw.
C12_Witness ==
  /\ call.op = "factory"
  /\ call.receiver = "prototype"
  /\ call.threw
  /\ \E i \in 1..Len(call.trace) :
       /\ call.trace[i].fn.k = "function"
       /\ call.trace[i].this = Obj(1)
       /\ call.trace[i].ret = Val("thrown", 0)
  /\ \E g \in 1..Len(factories) :
       \E i \in 1..Len(factories[g].decorators) :
         factories[g].decorators[i] = FactoryRef(call.f)

C14_ReducerStep ==
  call.op = "factory" =>
    LET es == EventsBy(call.trace, call.f)
        table == factories[call.f].prototype
        kept(i) == es[i].ret = Undef \/ es[i].ret = es[i].this
    IN /\ \A i \in 1..Len(es) : \A j \in 1..Len(es) :
            j = i + 1 =>
              IF kept(i)
              THEN /\ es[j].this = es[i].this
                   /\ es[j].args = es[i].args
              ELSE /\ es[j].this = es[i].ret
                   /\ es[i].ret.k = "object"
                   /\ \A name \in EnumKeys(table) :
                        /\ name \in DOMAIN call.heap[es[i].ret.n].props
                        /\ call.heap[es[i].ret.n].props[name].val
                             = table[name].val
       /\ (/\ call.created
           /\ ~call.threw
           /\ \A i \in 1..Len(es) : kept(i))
            => \A name \in EnumKeys(table) :
                 name \notin DOMAIN call.heap[call.result.n].props

\* C14 witness: the first initializer returned a new object, the second
\* one was applied to it and returned its receiver, and the method table
\* has enumerable entries.
C14_Witness ==
  /\ call.op = "factory"
  /\ EnumKeys(factories[call.f].prototype) # {}
  /\ LET es == EventsBy(call.trace, call.f)
     IN /\ Len(es) = 2
        /\ es[1].ret.k = "object"
        /\ es[1].ret # es[1].this
        /\ es[2].this = es[1].ret
        /\ es[2].ret = es[2].this

\* The initializer the classifier is to pick for shape i, from the way the
\* shape was made: its own constructor entry; else, for a function, the
\* function itself when it has no prototype and the constructor entry that
\* a lookup on its prototype finds when it has one (its own on an odd
\* variant, the parent layer's on an even one); else, for a class, the
\* wrapper; else none.
ExpectedInitializer(i) ==
  LET v == ShapeVariant(i)
  IN IF ShapeHasConstructor(i) THEN Fn(80 + v)
     ELSE CASE ShapeKind(i) = "function" ->
                 IF v % 2 = 1 THEN Fn(20 + v) ELSE Fn(40 + 10 * v + 2)
            [] ShapeKind(i) = "arrow" -> Fn(30 + v)
            [] ShapeKind(i) = "class" -> ClassWrapper(v)
            [] OTHER -> Undef

\* The decorators of refs that have an own defaults entry with the key.
DefaultsGivers(refs, key) ==
  {k \in 1..Len(refs) :
     /\ ShapeHasDefaults(refs[k].i)
     /\ key \in DOMAIN ShapeDefaults(ShapeVariant(refs[k].i))}

\* C15: the initializer list of a composed factory holds, in argument
\* order, for each decorator: its own constructor entry if it has one;
\* else, for an ordinary function, the function itself (no prototype) or
\* its prototype's constructor entry; else, for a class, the wrapper; else
\* nothing.  Whatever the kind, the defaults table holds the entries of
\* every decorator's own defaults mapping, the last one winning.
C15_ClassifierPriority ==
  (/\ call.op = "Deco"
   /\ \A k \in 1..Len(call.decorators) : call.decorators[k].t = "shape")
    => LET refs == call.decorators
           picked == [k \in 1..Len(refs) |-> ExpectedInitializer(refs[k].i)]
           table == factories[call.f].defaults
       IN /\ factories[call.f].constructors
               = SelectSeq(picked, LAMBDA a : a # Undef)
          /\ DOMAIN table \subseteq {"a", "b"}
          /\ \A key \in {"a", "b"} :
               LET givers == DefaultsGivers(refs, key)
                   last == CHOOSE k \in givers : \A j \in givers : j <= k
               IN IF givers = {} THEN key \notin DOMAIN table
                  ELSE /\ key \in DOMAIN table
                       /\ table[key].val = Prim(ShapeVariant(refs[last].i))

\* C15 witness: a function with an own constructor entry and an own
\* defaults entry composed with an object that has neither.
C15_Witness ==
  /\ call.op = "Deco"
  /\ Len(call.decorators) = 2
  /\ call.decorators[1].t = "shape"
  /\ call.decorators[2].t = "shape"
  /\ ShapeKind(call.decorators[1].i) = "function"
  /\ ShapeHasConstructor(call.decorators[1].i)
  /\ ShapeHasDefaults(call.decorators[1].i)
  /\ ShapeKind(call.decorators[2].i) = "object"
  /\ ~ShapeHasConstructor(call.decorators[2].i)
  /\ Len(factories[call.f].constructors) = 1
  /\ factories[call.f].defaults # EmptyTable

\* The value of the name in the most specific layer (the first one) in
\* which it is enumerable.
MostSpecificEnumerable(layers, name) ==
  LET js == {j \in 1..Len(layers) : name \in EnumKeys(layers[j])}
      first == CHOOSE j \in js : \A k \in js : j <= k
  IN layers[first][name].val

ContributedNames(d) ==
  IF isFunction(d)
  THEN UNION {EnumKeys(chain(d)[j]) : j \in 1..Len(chain(d))}
  ELSE EnumKeys(d.own)

ContributedValue(d, name) ==
  IF isFunction(d) THEN MostSpecificEnumerable(chain(d), name)
  ELSE d.own[name].val

\* C17: the method table of a composed factory holds, for every name a
\* decorator contributes, the implementation of the last decorator in
\* argument order that contributes it, a function contributing the
\* flattening of its prototype chain; the other entries are as initialize
\* left them.
C17_RightBiasedMerge ==
  (/\ call.op = "Deco"
   /\ \A k \in 1..Len(call.decorators) : call.decorators[k].t = "shape")
    => LET ds == ResolveAll(factories, call.decorators)
           table == factories[call.f].prototype
           contributed == UNION {ContributedNames(ds[k]) : k \in 1..Len(ds)}
       IN /\ \A name \in contributed :
               LET givers == {k \in 1..Len(ds) :
                                name \in ContributedNames(ds[k])}
                   last == CHOOSE k \in givers : \A j \in givers : j <= k
               IN /\ name \in DOMAIN table
                  /\ table[name].val = ContributedValue(ds[last], name)
          /\ \A name \in DOMAIN table \ contributed :
               /\ name \in DOMAIN initialize(NewFactory, call.f).prototype
               /\ table[name] = initialize(NewFactory, call.f).prototype[name]

\* C17 witness: an object and then a function whose prototype chain has
\* two layers below Object.prototype were composed, both contribute m1
\* with different implementations.
C17_Witness ==
  /\ call.op = "Deco"
  /\ Len(call.decorators) = 2
  /\ call.decorators[1].t = "shape"
  /\ call.decorators[2].t = "shape"
  /\ LET ds == ResolveAll(factories, call.decorators)
     IN /\ ds[1].kind = "object"
        /\ ds[2].kind = "function"
        /\ Len(chain(ds[2])) = 3
        /\ "m1" \in ContributedNames(ds[1])
        /\ "m1" \in ContributedNames(ds[2])
        /\ ContributedValue(ds[1], "m1") # ContributedValue(ds[2], "m1")
        /\ factories[call.f].prototype["m1"].val
             = ContributedValue(ds[2], "m1")

\* C18: in every factory, whatever decorators it was composed of, the
\* constructor entry of the method table is the factory's own pipeline and
\* the defaults entry is its own defaults accessor.
C18_PipelineNeverReplaced ==
  \A f \in 1..Len(factories) :
    /\ factories[f].prototype["constructor"].val = Pipeline(f)
    /\ factories[f].prototype["defaults"].val = MemberDefaults(f)

====
